---- MODULE Spec2Model ----
(***************************************************************************)
(* A model of spreadsheet_arena: the task queue (mcp/tools/task_queue.py), *)
(* the manifest parser (datasets/tasks.py), the checkout orchestrator      *)
(* (datasets/checkout.py) and the archive transforms                       *)
(* (datasets/adapters/transforms.py).                                      *)
(***************************************************************************)
EXTENDS Integers, Sequences, FiniteSets, TLC

\* ------------------------------------------------------------------ bounds
NumItems == 2          \* task records in the manifest the queue is built from
NumWorkers == 2        \* threads calling next_task / submit_answer
MaxLeaseCalls == 4     \* next_task calls over the life of the queue
MaxWriteFails == 1     \* failures of the result-record write

\* ------------------------------------------------------- Python's None
None == "<None>"       \* None where the other values are strings
NoneInt == -1          \* None where the other values are numbers
NoneRec == [py_none |-> TRUE]   \* None where the other values are dicts

Falsy(s) == s = None \/ s = ""

Min(a, b) == IF a <= b THEN a ELSE b

\* ------------------------------------------------- datasets/tasks.py
DatasetRoot == "/ds"
AbsolutePaths == {"/abs/in.csv", "/abs/ans.csv", "/abs/alt.csv", "/abs/tasks.json"}

\* Path.is_absolute on the path strings of the model
IsAbsolute(s) == s \in AbsolutePaths

\* dict.get(k)
Get(t, k) == IF k \in DOMAIN t THEN t[k] ELSE None

\* _maybe_rel(base, s)
MaybeRel(base, s) ==
    IF Falsy(s) THEN None
    ELSE IF IsAbsolute(s) THEN s
    ELSE base \o "/" \o s

ReservedKeys == {"id", "name", "instruction", "input", "answer"}

\* the manifest records the queue's tasks are drawn from
ManifestRecords ==
    << [id |-> "t1", instruction |-> "do X"],
       [name |-> "n2", input |-> "in.xlsx", answer |-> "ans.xlsx", difficulty |-> "hard"],
       [input |-> "/abs/in.csv", answer |-> "/abs/ans.csv"] >>

\* the manifests of n records: the records above in cyclic order, from any of them
Manifests(n) ==
    { [i \in 1..n |-> ManifestRecords[((i + k) % Len(ManifestRecords)) + 1]] :
        k \in 1..Len(ManifestRecords) }

\* the id of the record parsed when n specs are already in the output list
TaskId(t, n) ==
    IF ~Falsy(Get(t, "id")) THEN Get(t, "id")
    ELSE IF ~Falsy(Get(t, "name")) THEN Get(t, "name")
    ELSE "task-" \o ToString(n + 1)

\* meta = {k: v for k, v in t.items() if k not in {...}}
MetaOf(t) == [k \in (DOMAIN t) \ ReservedKeys |-> t[k]]

\* one iteration of the loop of _parse_tasks
ParseTask(t, n, root) ==
    LET tid == TaskId(t, n) IN
    [ id |-> tid,
      instruction |-> IF ~Falsy(Get(t, "instruction")) THEN Get(t, "instruction")
                      ELSE "Run benchmark task '" \o tid \o "'.",
      input_path |-> MaybeRel(root, Get(t, "input")),
      answer_path |-> MaybeRel(root, Get(t, "answer")),
      meta |-> MetaOf(t) ]

\* _parse_tasks(raw, dataset_root): raw is a sequence of records
ParseTasks(raw, root) == [n \in 1..Len(raw) |-> ParseTask(raw[n], n - 1, root)]

\* ------------------------------------ datasets/adapters/transforms.py
\* A path is a sequence of components from the filesystem root; a file is a
\* path with its data; a filesystem is a set of files.
WorkRoot == <<"tmp", "work">>            \* checkout_one's workdir, tmp / "work"

\* the characters of each component the model uses, as str(path) spells them
Chars(c) ==
    CASE c = "tmp" -> <<"t", "m", "p">>
      [] c = "work" -> <<"w", "o", "r", "k">>
      [] c = "work2" -> <<"w", "o", "r", "k", "2">>
      [] c = "sub" -> <<"s", "u", "b">>
      [] c = "etc" -> <<"e", "t", "c">>
      [] c = "x" -> <<"x">>
      [] c = "y" -> <<"y">>
      [] c = "a.zip" -> <<"a", ".", "z", "i", "p">>
      [] c = "b.zip" -> <<"b", ".", "z", "i", "p">>
      [] c = "a.tgz" -> <<"a", ".", "t", "g", "z">>
      [] c = "b.tgz" -> <<"b", ".", "t", "g", "z">>
      [] c = "data.csv" -> <<"d", "a", "t", "a", ".", "c", "s", "v">>
      [] c = "raw.tmp" -> <<"r", "a", "w", ".", "t", "m", "p">>
      [] c = "tasks.json" -> <<"t", "a", "s", "k", "s", ".", "j", "s", "o", "n">>

\* str(path) of an absolute path: "/" before each component ("/" for the root)
RECURSIVE Str(_)
Str(path) ==
    IF path = <<>> THEN <<>>
    ELSE <<"/">> \o Chars(Head(path)) \o Str(Tail(path))

\* str.startswith
StartsWith(s, prefix) ==
    /\ Len(prefix) <= Len(s)
    /\ SubSeq(s, 1, Len(prefix)) = prefix

\* Path.resolve on a filesystem without symlinks: "." is dropped and ".."
\* drops the component before it (the root's parent is the root)
RECURSIVE ResolveFrom(_, _)
ResolveFrom(done, rest) ==
    IF rest = <<>> THEN done
    ELSE IF Head(rest) = "." THEN ResolveFrom(done, Tail(rest))
    ELSE IF Head(rest) = ".."
         THEN ResolveFrom(IF done = <<>> THEN <<>> ELSE SubSeq(done, 1, Len(done) - 1),
                          Tail(rest))
    ELSE ResolveFrom(Append(done, Head(rest)), Tail(rest))
Resolve(path) == ResolveFrom(<<>>, path)

\* dest / name, for a member name [abs, parts]: an absolute name replaces dest
Join(dest, m) == IF m.abs THEN m.parts ELSE dest \o m.parts

\* "str(extracted).startswith(str(dest.resolve()))" on the two strings
PrefixTest(s, prefix) == StartsWith(s, prefix)

\* the test _safe_unzip and _safe_untar make on one member
MemberPasses(dest, m) == PrefixTest(Str(Resolve(Join(dest, m))), Str(Resolve(dest)))

\* the loop over infolist() / getmembers(): no member makes it raise
SafeCheck(members, dest) == \A k \in 1..Len(members) : MemberPasses(dest, members[k])

\* path is dest or below it, component by component
Within(path, dest) ==
    /\ Len(dest) <= Len(path)
    /\ SubSeq(path, 1, Len(dest)) = dest

\* where ZipFile.extractall puts a member: "", "." and ".." components and the
\* leading "/" are dropped from its name
RECURSIVE DropDots(_)
DropDots(parts) ==
    IF parts = <<>> THEN <<>>
    ELSE IF Head(parts) \in {".", ".."} THEN DropDots(Tail(parts))
    ELSE <<Head(parts)>> \o DropDots(Tail(parts))
ZipTarget(dest, m) == dest \o DropDots(m.parts)

\* where TarFile.extractall puts a member when no filter looks at it
TarTarget(dest, m) == Resolve(Join(dest, m))

DataFile(path) == [path |-> path, kind |-> "data", members |-> <<>>, ver |-> 0]

\* the files extractall writes for the first n members
RECURSIVE Written(_, _, _, _)
Written(kind, dest, members, n) ==
    IF n = 0 THEN {}
    ELSE Written(kind, dest, members, n - 1) \cup
         { DataFile(IF kind = "zip" THEN ZipTarget(dest, members[n])
                    ELSE TarTarget(dest, members[n])) }

\* the members tarfile's "data" filter lets through before it raises: all of
\* them (Len(members)) unless one lands outside dest
FilterStop(dest, members) ==
    IF \E k \in 1..Len(members) : ~Within(TarTarget(dest, members[k]), dest)
    THEN (CHOOSE k \in 1..Len(members) :
             /\ ~Within(TarTarget(dest, members[k]), dest)
             /\ \A j \in 1..(k - 1) : Within(TarTarget(dest, members[j]), dest)) - 1
    ELSE Len(members)

Parent(path) == SubSeq(path, 1, Len(path) - 1)
Name(path) == path[Len(path)]

\* z.suffix.lower() != ".zip"  /  not (name.endswith(".tar.gz") or name.endswith(".tgz"))
IsZipName(n) == n \in {"a.zip", "b.zip"}
IsTgzName(n) == n \in {"a.tgz", "b.tgz"}

\* _safe_unzip / _safe_untar on archive z, then the optional unlink, within one
\* iteration of the loop of _t_unzip / _t_untar: [raised, fs]
UnpackOne(fs, z, kind, delete_archives, tarFilter) ==
    LET dest == Parent(z.path) IN
    IF ~SafeCheck(z.members, dest) THEN [raised |-> TRUE, fs |-> fs]
    ELSE IF kind = "tar" /\ tarFilter = "data" /\ FilterStop(dest, z.members) < Len(z.members)
         THEN [raised |-> TRUE,
               fs |-> fs \cup Written(kind, dest, z.members, FilterStop(dest, z.members))]
    ELSE [raised |-> FALSE,
          fs |-> (fs \cup Written(kind, dest, z.members, Len(z.members)))
                 \ (IF delete_archives THEN {z} ELSE {})]

\* the archive is of the kind the step unpacks (the "continue" of the loop)
Unpacks(kind, z) == IF kind = "zip" THEN IsZipName(Name(z.path)) ELSE IsTgzName(Name(z.path))

\* fnmatch of a pattern of the model against a file name
Matches(pattern, n) ==
    CASE pattern = "*.zip" -> IsZipName(n)
      [] pattern = "*.tgz" -> IsTgzName(n)
      [] OTHER -> pattern = n

\* the files _glob_paths(root, patterns) finds (rglob looks at every depth)
Globbed(fs, root, patterns) ==
    { f \in fs : Within(f.path, root) /\ f.path /= root
                 /\ \E p \in patterns : Matches(p, Name(f.path)) }

\* the orders in which rglob may yield a set of files
Orderings(S) ==
    { o \in [1..Cardinality(S) -> S] : \A i, j \in 1..Cardinality(S) : i /= j => o[i] /= o[j] }

\* the loop of _t_unzip / _t_untar over the list todo: [raised, fs]
RECURSIVE UnpackAll(_, _, _, _, _)
UnpackAll(fs, todo, kind, delete_archives, tarFilter) ==
    IF todo = <<>> THEN [raised |-> FALSE, fs |-> fs]
    ELSE IF ~Unpacks(kind, Head(todo))
         THEN UnpackAll(fs, Tail(todo), kind, delete_archives, tarFilter)
    ELSE LET r == UnpackOne(fs, Head(todo), kind, delete_archives, tarFilter) IN
         IF r.raised THEN r
         ELSE UnpackAll(r.fs, Tail(todo), kind, delete_archives, tarFilter)

\* _t_delete: the matches are unlinked
Deleted(fs, root, patterns) == fs \ Globbed(fs, root, patterns)

\* the kinds apply_transforms dispatches to a handler
KnownKinds == {"unzip", "keep_only", "strip_prefix", "rename", "delete", "copy", "move", "untar"}

\* a pipeline that passes over a step of a kind it does not know
UnknownKind_Skipped(fs) == [raised |-> "", fs |-> fs]

\* the else branch of the dispatch: "raise ValueError(...)"
UnknownKind(fs) == [raised |-> "ValueError", fs |-> fs]

\* one step of apply_transforms, for the glob order the filesystem gives:
\* [raised, fs], raised being "" or the exception's type
ApplyStep(fs, root, step, order, tarFilter) ==
    IF step.type \in {"unzip", "untar"}
    THEN LET r == UnpackAll(fs, order, IF step.type = "unzip" THEN "zip" ELSE "tar",
                            step.delete_archives, tarFilter) IN
         [raised |-> IF r.raised THEN "RuntimeError" ELSE "", fs |-> r.fs]
    ELSE IF step.type = "delete"
    THEN [raised |-> "", fs |-> Deleted(fs, root, step.patterns)]
    ELSE UnknownKind(fs)

\* the glob orders step may see on fs (one, empty, for a step that does not glob)
StepOrders(fs, root, step) ==
    IF step.type \in {"unzip", "untar"} THEN Orderings(Globbed(fs, root, step.patterns))
    ELSE {<<>>}

\* every filesystem apply_transforms(root, steps) can end with without raising
RECURSIVE Transformed(_, _, _, _)
Transformed(fs, root, steps, tarFilter) ==
    IF steps = <<>> THEN {fs}
    ELSE UNION { LET r == ApplyStep(fs, root, Head(steps), o, tarFilter) IN
                 IF r.raised /= "" THEN {}
                 ELSE Transformed(r.fs, root, Tail(steps), tarFilter) :
                 o \in StepOrders(fs, root, Head(steps)) }

\* the files below one directory, moved below another
Rebase(fs, from, to) ==
    { [f EXCEPT !.path = to \o SubSeq(f.path, Len(from) + 1, Len(f.path))] :
        f \in { g \in fs : Within(g.path, from) } }

\* ------------------------------------------- mcp/tools/task_queue.py
VARIABLES
    manifest,      \* the task records the queue was built from
    grader,        \* whether a grading callback is configured
    items,         \* TaskQueue._items: task id -> QueueItem fields
    lock,          \* TaskQueue._lock is held
    in_progress,   \* TaskQueue._in_progress
    completed,     \* TaskQueue._completed
    files,         \* results_dir: task id -> the record in task_<id>.json
    now,           \* the clock time.time() reads; no queue call advances it
    pc,            \* worker -> position in the call it is executing
    loc,           \* worker -> the locals of the call it is executing
    snap,          \* worker -> the queue as it was when its call took the lock
    leases,        \* task id -> number of next_task calls that returned it
    ntCalls,       \* next_task calls begun
    graderCalls,   \* invocations of the grading callback
    writeFails     \* failed writes of a result record

qvars == <<manifest, grader, items, lock, in_progress, completed, files, now,
           pc, loc, snap, leases, ntCalls, graderCalls, writeFails>>

\* one run of an unzip / untar step (datasets/adapters/transforms.py)
VARIABLES
    x_fs,          \* the filesystem
    x_fs0,         \* the filesystem when the step began
    x_step,        \* the step: [kind, delete_archives]
    x_todo,        \* the archives _glob_paths returned, those not yet visited
    x_log,         \* the archives unpacked so far, with what each wrote
    x_pc           \* "loop", "raised" or "done"

xvars == <<x_fs, x_fs0, x_step, x_todo, x_log, x_pc>>

\* the Python the program runs on
VARIABLES
    tarFilter      \* the filter TarFile.extractall applies when given none

\* calls of checkout_one by one caller (datasets/checkout.py)
VARIABLES
    ck_cfg,        \* the registered dataset: what its repository holds, its transforms
    ck_remote,     \* the version the remote repository is at
    ck_fs,         \* the filesystem: the temporary directory and the destination
    ck_dstDir,     \* the destination directory exists
    ck_pc,         \* position in checkout_one
    ck_args,       \* [id, update] of the call
    ck_k,          \* transform steps applied so far
    ck_ret,        \* what the last call returned or raised
    ck_stage,      \* the stage the call is in, or raised in
    ck_before,     \* the destination when the call began
    ck_ops,        \* what the call has done so far: fetch, copy, remove, move
    ck_steps       \* the transform steps the call has dispatched, by position

cvars == <<ck_cfg, ck_remote, ck_fs, ck_dstDir, ck_pc, ck_args, ck_k, ck_ret,
           ck_stage, ck_before, ck_ops, ck_steps>>

\* one call of wait_for_all_completed (mcp/tools/task_queue.py)
VARIABLES
    w_pc,          \* position in the call: "idle" before it begins
    w_timeout,     \* timeout_seconds, in poll intervals, or None
    w_start,       \* start = time.time()
    w_done,        \* the local "done"
    w_holds        \* the call holds TaskQueue._lock

wvars == <<w_pc, w_timeout, w_start, w_done, w_holds>>

\* calls of build_tasks_from_dataset by one caller (datasets/tasks.py)
VARIABLES
    bt_pc,         \* position in build_tasks_from_dataset
    bt_args,       \* [id, update] of the call, then limit and shuffle
    bt_ret,        \* what the last call raised, or "ok"
    bt_tasks,      \* the list the last call returned
    bt_before      \* the filesystem when the call began

bvars == <<bt_pc, bt_args, bt_ret, bt_tasks, bt_before>>

\* one call of _parse_tasks (datasets/tasks.py)
VARIABLES
    p_obj,         \* the parsed JSON of the manifest file: [kind, tasks]
    p_out,         \* the list "out"
    p_k,           \* records of raw the loop has gone through
    p_pc           \* "open", "loop", "done" or "raised"

pvars == <<p_obj, p_out, p_k, p_pc>>

\* one strip_prefix step of apply_transforms (datasets/adapters/transforms.py)
VARIABLES
    s_fs,          \* the tree below root: directories and files, [path, kind, ver]
    s_fs0,         \* the tree when the step began
    s_step,        \* the step: [prefix]
    s_todo,        \* names of src.iterdir() not moved yet
    s_pc,          \* "start", "move", "done" or "raised"
    s_ret          \* the exception raised, or "none"

svars == <<s_fs, s_fs0, s_step, s_todo, s_pc, s_ret>>

vars == <<qvars, xvars, tarFilter, cvars, wvars, bvars, pvars, svars>>
nonQueue == <<xvars, tarFilter, cvars, wvars, bvars, pvars, svars>>
nonExtract == <<qvars, tarFilter, cvars, wvars, bvars, pvars, svars>>
nonCheckout == <<qvars, xvars, tarFilter, wvars, bvars, pvars, svars>>
nonWait == <<xvars, tarFilter, cvars, bvars, pvars, svars>>
nonBuild == <<qvars, xvars, tarFilter, wvars, pvars, svars>>
nonParse == <<qvars, xvars, tarFilter, cvars, wvars, bvars, svars>>
nonStrip == <<qvars, xvars, tarFilter, cvars, wvars, bvars, pvars>>

Workers == 1..NumWorkers
TaskIds == 0..(NumItems - 1)

\* len(self._items), and the ids of the items
Total == Len(manifest)
ItemIds == 0..(Total - 1)

\* the TaskSpec list handed to TaskQueue.__init__
Specs == ParseTasks(manifest, DatasetRoot)
SpecOf(i) == Specs[i + 1]

NoFile == [py_nofile |-> TRUE]
Truncated == [py_truncated |-> TRUE]

NoLocals == [task_id |-> NoneInt, output_path |-> None, it |-> NoneInt,
             grade |-> NoneRec, raised |-> FALSE, rec |-> NoneRec, ret |-> NoneRec]

\* what a caller can see or what persists: the part of the queue a call may change
QueueState == [items |-> items, in_progress |-> in_progress, completed |-> completed,
               files |-> files, graderCalls |-> graderCalls]

\* QueueItem(id=i, spec=s) for i, s in enumerate(specs)
InitItems == [i \in ItemIds |->
                [id |-> i, status |-> "pending", started_at |-> NoneInt,
                 finished_at |-> NoneInt, result |-> NoneRec]]

QueueInit ==
    /\ manifest \in Manifests(NumItems)
    /\ grader \in BOOLEAN
    /\ items = InitItems
    /\ lock = FALSE
    /\ in_progress = {}
    /\ completed = 0
    /\ files = [i \in TaskIds |-> NoFile]
    /\ now = 1
    /\ pc = [w \in Workers |-> "idle"]
    /\ loc = [w \in Workers |-> NoLocals]
    /\ snap = [w \in Workers |-> NoneRec]
    /\ leases = [i \in TaskIds |-> 0]
    /\ ntCalls = 0
    /\ graderCalls = 0
    /\ writeFails = 0

\* a queue whose calls do not take the lock
CanAcquire_NoLock == TRUE

\* threading.Lock.acquire: enabled when the lock is free
CanAcquire == lock = FALSE

\* ---- next_task
\* a view that carries the answer reference along
ViewOf_Leaky(it, spec) ==
    [ task_id |-> it,
      id |-> spec.id,
      instruction |-> spec.instruction,
      input |-> IF ~Falsy(spec.input_path) THEN spec.input_path ELSE None,
      answer |-> IF ~Falsy(spec.answer_path) THEN spec.answer_path ELSE None,
      meta |-> spec.meta ]

\* the dict next_task returns for item it of the queue built from specs
ViewOf(it, spec) ==
    [ task_id |-> it,
      id |-> spec.id,
      instruction |-> spec.instruction,
      input |-> IF ~Falsy(spec.input_path) THEN spec.input_path ELSE None,
      meta |-> spec.meta ]

\* "with self._lock:" of next_task
NT_Acquire(w) ==
    /\ pc[w] = "idle"
    /\ ntCalls < MaxLeaseCalls
    /\ CanAcquire
    /\ lock' = TRUE
    /\ pc' = [pc EXCEPT ![w] = "nt_scan"]
    /\ snap' = [snap EXCEPT ![w] = QueueState]
    /\ ntCalls' = ntCalls + 1
    /\ UNCHANGED nonQueue
    /\ UNCHANGED <<manifest, grader, items, in_progress, completed, files, now,
                   loc, leases, graderCalls, writeFails>>

\* a scan that looks at the head of the list only
FirstPending_OnlyHead == IF items[0].status = "pending" THEN 0 ELSE NoneInt

\* a scan that takes the last pending item of the list
FirstPending_Last ==
    IF \E i \in ItemIds : items[i].status = "pending"
    THEN CHOOSE i \in ItemIds : /\ items[i].status = "pending"
                                /\ \A j \in ItemIds : j > i => items[j].status /= "pending"
    ELSE NoneInt

\* the first item, in list order, whose status is "pending"
FirstPending ==
    IF \E i \in ItemIds : items[i].status = "pending"
    THEN CHOOSE i \in ItemIds : /\ items[i].status = "pending"
                                /\ \A j \in ItemIds : j < i => items[j].status /= "pending"
    ELSE NoneInt

\* the for loop up to the test "it.status == 'pending'"; falls out to "return None"
NT_Scan(w) ==
    /\ pc[w] = "nt_scan"
    /\ IF FirstPending /= NoneInt
       THEN /\ loc' = [loc EXCEPT ![w].it = FirstPending]
            /\ pc' = [pc EXCEPT ![w] = "nt_lease"]
       ELSE /\ loc' = [loc EXCEPT ![w].ret = NoneRec]
            /\ pc' = [pc EXCEPT ![w] = "nt_exit"]
    /\ UNCHANGED nonQueue
    /\ UNCHANGED <<manifest, grader, items, lock, in_progress, completed, files, now,
                   snap, leases, ntCalls, graderCalls, writeFails>>

\* the body of the if: flip to in_progress, stamp, build the returned dict
NT_Lease(w) ==
    /\ pc[w] = "nt_lease"
    /\ LET it == loc[w].it IN
       /\ items' = [items EXCEPT ![it].status = "in_progress", ![it].started_at = now]
       /\ in_progress' = in_progress \cup {it}
       /\ loc' = [loc EXCEPT ![w].ret = ViewOf(it, SpecOf(it))]
       /\ leases' = [leases EXCEPT ![it] = @ + 1]
    /\ pc' = [pc EXCEPT ![w] = "nt_exit"]
    /\ UNCHANGED nonQueue
    /\ UNCHANGED <<manifest, grader, lock, completed, files, now, snap, ntCalls,
                   graderCalls, writeFails>>

\* leaving the with block: the lock is released and the call returns loc[w].ret
NT_Exit(w) ==
    /\ pc[w] = "nt_exit"
    /\ lock' = FALSE
    /\ pc' = [pc EXCEPT ![w] = "idle"]
    /\ loc' = [loc EXCEPT ![w] = NoLocals]
    /\ snap' = [snap EXCEPT ![w] = NoneRec]
    /\ UNCHANGED nonQueue
    /\ UNCHANGED <<manifest, grader, items, in_progress, completed, files, now,
                   leases, ntCalls, graderCalls, writeFails>>

\* ---- submit_answer
SubmitIds == (0 - 1)..NumItems
OutputPaths == {None, "", "out.csv"}

EmptyDict == [k \in {} |-> 0]
GraderReturns == {EmptyDict, [score |-> 1]}
GradingError == [status |-> "grading_error", error |-> "boom"]

\* a record that never carries the grade
GradeOrNone_Null(g) == NoneRec

\* "grade or None"
GradeOrNone(g) == IF g = EmptyDict THEN NoneRec ELSE g

\* "Path(output_path) if output_path else None", then "with self._lock:"
Sub_Acquire(w, tid, out) ==
    /\ pc[w] = "idle"
    /\ CanAcquire
    /\ lock' = TRUE
    /\ pc' = [pc EXCEPT ![w] = "sub_validate"]
    /\ loc' = [loc EXCEPT ![w].task_id = tid,
                          ![w].output_path = IF Falsy(out) THEN None ELSE out]
    /\ snap' = [snap EXCEPT ![w] = QueueState]
    /\ UNCHANGED nonQueue
    /\ UNCHANGED <<manifest, grader, items, in_progress, completed, files, now,
                   leases, ntCalls, graderCalls, writeFails>>

\* "task_id < 0 or task_id >= len(self._items)"
OutOfRange(tid) == tid < 0 \/ tid >= Total

\* a status check that lets a never-leased item through
NotInProgress_PendingPasses(st) == st = "completed"

\* a status check that lets an already completed item through
NotInProgress_CompletedPasses(st) == st = "pending"

\* 'it.status != "in_progress"'
NotInProgress(st) == st /= "in_progress"

\* the two checks that open the critical section
Sub_Validate(w) ==
    /\ pc[w] = "sub_validate"
    /\ LET tid == loc[w].task_id IN
       IF OutOfRange(tid)
       THEN /\ loc' = [loc EXCEPT ![w].ret = [error |-> "ValueError"]]
            /\ pc' = [pc EXCEPT ![w] = "sub_exit"]
       ELSE IF NotInProgress(items[tid].status)
       THEN /\ loc' = [loc EXCEPT ![w].ret = [error |-> "RuntimeError"]]
            /\ pc' = [pc EXCEPT ![w] = "sub_exit"]
       ELSE /\ loc' = [loc EXCEPT ![w].it = tid]
            /\ pc' = [pc EXCEPT ![w] = "sub_grade"]
    /\ UNCHANGED nonQueue
    /\ UNCHANGED <<manifest, grader, items, lock, in_progress, completed, files, now,
                   snap, leases, ntCalls, graderCalls, writeFails>>

\* a handler that swallows the callback's failure without recording it
GradeAfter_Swallowed(g, raised) == IF raised THEN EmptyDict ELSE g

\* the grade left by "try: grade = self._grader(...) except Exception as e: ..."
\* when the callback returns g (raised = FALSE) or raises (raised = TRUE)
GradeAfter(g, raised) == IF raised THEN GradingError ELSE g

\* "if self._grader and p_out:" and the call of the callback
Sub_Grade(w) ==
    /\ pc[w] = "sub_grade"
    /\ IF grader /\ loc[w].output_path /= None
       THEN /\ \E g \in GraderReturns, raised \in BOOLEAN :
                 loc' = [loc EXCEPT ![w].grade = GradeAfter(g, raised),
                                    ![w].raised = raised]
            /\ graderCalls' = graderCalls + 1
       ELSE /\ loc' = [loc EXCEPT ![w].grade = EmptyDict]
            /\ UNCHANGED graderCalls
    /\ pc' = [pc EXCEPT ![w] = "sub_persist"]
    /\ UNCHANGED nonQueue
    /\ UNCHANGED <<manifest, grader, items, lock, in_progress, completed, files, now,
                   snap, leases, ntCalls, writeFails>>

\* the record built for item it
RecordOf(it, out, grade, t) ==
    [ task_id |-> it,
      spec_id |-> SpecOf(it).id,
      output_path |-> out,
      grade |-> GradeOrNone(grade),
      submitted_at |-> t ]

\* a submit that goes on to mark the item after a failed write
AfterWriteError_Swallowed == "sub_mark"

\* where an exception of write_text takes the call: out of the with block
AfterWriteError == "sub_exit"

\* rec = {...}; write_text(json.dumps(rec)): the write succeeds, or raises with
\* the file untouched or truncated
\* (json.dumps of a record of JSON values, as the grades of GraderReturns are,
\* reads back as the same record; a grade it cannot encode makes it raise before
\* the file is opened: the failing branch with the file untouched)
Sub_Persist(w) ==
    /\ pc[w] = "sub_persist"
    /\ LET it == loc[w].it
           rec == RecordOf(it, loc[w].output_path, loc[w].grade, now) IN
       \/ /\ files' = [files EXCEPT ![it] = rec]
          /\ loc' = [loc EXCEPT ![w].rec = rec]
          /\ pc' = [pc EXCEPT ![w] = "sub_mark"]
          /\ UNCHANGED writeFails
       \/ /\ writeFails < MaxWriteFails
          /\ \E left \in {files[it], Truncated} : files' = [files EXCEPT ![it] = left]
          /\ loc' = [loc EXCEPT ![w].rec = rec, ![w].ret = [error |-> "OSError"]]
          /\ pc' = [pc EXCEPT ![w] = AfterWriteError]
          /\ writeFails' = writeFails + 1
    /\ UNCHANGED nonQueue
    /\ UNCHANGED <<manifest, grader, items, lock, in_progress, completed, now, snap,
                   leases, ntCalls, graderCalls>>

\* it.status = "completed" ... self._in_progress.discard(it.id)
Sub_Mark(w) ==
    /\ pc[w] = "sub_mark"
    /\ LET it == loc[w].it IN
       /\ items' = [items EXCEPT ![it].status = "completed", ![it].finished_at = now,
                                 ![it].result = loc[w].rec]
       /\ in_progress' = in_progress \ {it}
    /\ pc' = [pc EXCEPT ![w] = "sub_count"]
    /\ UNCHANGED nonQueue
    /\ UNCHANGED <<manifest, grader, lock, completed, files, now, loc, snap, leases,
                   ntCalls, graderCalls, writeFails>>

\* a counter that is never incremented
Incremented_Forgotten(c) == c

\* the value of self._completed after "self._completed += 1"
Incremented(c) == c + 1

\* self._completed += 1, and the acknowledgement built from it
Sub_Count(w) ==
    /\ pc[w] = "sub_count"
    /\ completed' = Incremented(completed)
    /\ loc' = [loc EXCEPT ![w].ret = [ok |-> TRUE, grade |-> GradeOrNone(loc[w].grade),
                                      completed |-> completed', total |-> Total]]
    /\ pc' = [pc EXCEPT ![w] = "sub_exit"]
    /\ UNCHANGED nonQueue
    /\ UNCHANGED <<manifest, grader, items, lock, in_progress, files, now, snap,
                   leases, ntCalls, graderCalls, writeFails>>

\* leaving the with block: the lock is released; the call returns or raises loc[w].ret
Sub_Exit(w) ==
    /\ pc[w] = "sub_exit"
    /\ lock' = FALSE
    /\ pc' = [pc EXCEPT ![w] = "idle"]
    /\ loc' = [loc EXCEPT ![w] = NoLocals]
    /\ snap' = [snap EXCEPT ![w] = NoneRec]
    /\ UNCHANGED nonQueue
    /\ UNCHANGED <<manifest, grader, items, in_progress, completed, files, now,
                   leases, ntCalls, graderCalls, writeFails>>

\* ---- pending_count and completed_count
\* "with self._lock:" of pending_count
PC_Acquire(w) ==
    /\ pc[w] = "idle"
    /\ CanAcquire
    /\ lock' = TRUE
    /\ pc' = [pc EXCEPT ![w] = "pc_read"]
    /\ snap' = [snap EXCEPT ![w] = QueueState]
    /\ UNCHANGED nonQueue
    /\ UNCHANGED <<manifest, grader, items, in_progress, completed, files, now,
                   loc, leases, ntCalls, graderCalls, writeFails>>

\* sum(1 for it in self._items if it.status == "pending")
PendingCount == Cardinality({ i \in ItemIds : items[i].status = "pending" })

PC_Read(w) ==
    /\ pc[w] = "pc_read"
    /\ loc' = [loc EXCEPT ![w].ret = [count |-> PendingCount]]
    /\ pc' = [pc EXCEPT ![w] = "count_exit"]
    /\ UNCHANGED nonQueue
    /\ UNCHANGED <<manifest, grader, items, lock, in_progress, completed, files, now,
                   snap, leases, ntCalls, graderCalls, writeFails>>

\* "with self._lock:" of completed_count
CC_Acquire(w) ==
    /\ pc[w] = "idle"
    /\ CanAcquire
    /\ lock' = TRUE
    /\ pc' = [pc EXCEPT ![w] = "cc_read"]
    /\ snap' = [snap EXCEPT ![w] = QueueState]
    /\ UNCHANGED nonQueue
    /\ UNCHANGED <<manifest, grader, items, in_progress, completed, files, now,
                   loc, leases, ntCalls, graderCalls, writeFails>>

\* "return self._completed"
CC_Read(w) ==
    /\ pc[w] = "cc_read"
    /\ loc' = [loc EXCEPT ![w].ret = [count |-> completed]]
    /\ pc' = [pc EXCEPT ![w] = "count_exit"]
    /\ UNCHANGED nonQueue
    /\ UNCHANGED <<manifest, grader, items, lock, in_progress, completed, files, now,
                   snap, leases, ntCalls, graderCalls, writeFails>>

\* leaving the with block of either count: the lock is released, loc[w].ret returned
Count_Exit(w) ==
    /\ pc[w] = "count_exit"
    /\ lock' = FALSE
    /\ pc' = [pc EXCEPT ![w] = "idle"]
    /\ loc' = [loc EXCEPT ![w] = NoLocals]
    /\ snap' = [snap EXCEPT ![w] = NoneRec]
    /\ UNCHANGED nonQueue
    /\ UNCHANGED <<manifest, grader, items, in_progress, completed, files, now,
                   leases, ntCalls, graderCalls, writeFails>>

QueueNext ==
    \E w \in Workers :
        \/ NT_Acquire(w)
        \/ NT_Scan(w)
        \/ NT_Lease(w)
        \/ NT_Exit(w)
        \/ \E tid \in SubmitIds, out \in OutputPaths : Sub_Acquire(w, tid, out)
        \/ Sub_Validate(w)
        \/ Sub_Grade(w)
        \/ Sub_Persist(w)
        \/ Sub_Mark(w)
        \/ Sub_Count(w)
        \/ Sub_Exit(w)
        \/ PC_Acquire(w)
        \/ PC_Read(w)
        \/ CC_Acquire(w)
        \/ CC_Read(w)
        \/ Count_Exit(w)

\* ---- one unzip / untar step
MaxMembers == 2        \* members of an archive

mIn == [abs |-> FALSE, parts |-> <<"x">>]                 \* dest/x
mUp == [abs |-> FALSE, parts |-> <<"..", "x">>]           \* the parent of dest
mSib == [abs |-> FALSE, parts |-> <<"..", "work2", "x">>] \* a sibling of dest
mAbs == [abs |-> TRUE, parts |-> <<"etc", "x">>]          \* /etc/x
MemberNames == {mIn, mUp, mSib, mAbs}

\* the member lists of an archive: up to MaxMembers distinct names, in any order
MemberLists ==
    UNION { { ms \in [1..n -> MemberNames] : \A i, j \in 1..n : i /= j => ms[i] /= ms[j] } :
            n \in 1..MaxMembers }

Archive(path, members) ==
    [path |-> path,
     kind |-> IF IsZipName(Name(path)) THEN "zip" ELSE "tgz",
     members |-> members, ver |-> 0]

\* the archive a pattern finds in the root, and the one it may find beside it or
\* in a subdirectory
FirstArchives == { Archive(WorkRoot \o <<n>>, ms) : n \in {"a.zip", "a.tgz"}, ms \in MemberLists }
SecondArchives ==
    { Archive(WorkRoot \o d \o <<n>>, ms) :
        d \in {<<>>, <<"sub">>}, n \in {"b.zip", "b.tgz"}, ms \in MemberLists }

\* the lists _glob_paths can return: rglob yields the matches in directory order
GlobResults ==
    { <<a>> : a \in FirstArchives } \cup
    { <<a, b>> : a \in FirstArchives, b \in SecondArchives } \cup
    { <<b, a>> : a \in FirstArchives, b \in SecondArchives }

Range(seq) == { seq[k] : k \in 1..Len(seq) }

ExtractIdle ==
    /\ x_fs = {}
    /\ x_fs0 = {}
    /\ x_step = [kind |-> "zip", delete_archives |-> FALSE]
    /\ x_todo = <<>>
    /\ x_log = {}
    /\ x_pc = "done"

ExtractInit ==
    /\ x_todo \in GlobResults
    /\ x_fs = Range(x_todo)
    /\ x_fs0 = x_fs
    /\ x_step \in [kind : {"zip", "tar"}, delete_archives : BOOLEAN]
    /\ x_log = {}
    /\ x_pc = "loop"

\* the "continue" of the loop: the match is not an archive of the step's kind
X_Skip ==
    /\ x_pc = "loop"
    /\ x_todo /= <<>>
    /\ ~Unpacks(x_step.kind, Head(x_todo))
    /\ x_todo' = Tail(x_todo)
    /\ UNCHANGED <<x_fs, x_fs0, x_step, x_log, x_pc>>
    /\ UNCHANGED nonExtract

\* one iteration: _safe_unzip / _safe_untar, then the unlink
X_Unpack ==
    /\ x_pc = "loop"
    /\ x_todo /= <<>>
    /\ Unpacks(x_step.kind, Head(x_todo))
    /\ LET z == Head(x_todo)
           r == UnpackOne(x_fs, z, x_step.kind, x_step.delete_archives, tarFilter) IN
       /\ x_fs' = r.fs
       /\ x_log' = x_log \cup {[z |-> z, raised |-> r.raised,
                                wrote |-> { f.path : f \in r.fs \ x_fs }]}
       /\ x_pc' = IF r.raised THEN "raised" ELSE "loop"
    /\ x_todo' = Tail(x_todo)
    /\ UNCHANGED <<x_fs0, x_step>>
    /\ UNCHANGED nonExtract

\* the loop is over: the step returns
X_Return ==
    /\ x_pc = "loop"
    /\ x_todo = <<>>
    /\ x_pc' = "done"
    /\ UNCHANGED <<x_fs, x_fs0, x_step, x_todo, x_log>>
    /\ UNCHANGED nonExtract

ExtractNext == X_Skip \/ X_Unpack \/ X_Return

\* ---- checkout_one
MaxVersion == 2        \* versions the remote repository goes through

DatasetId == "benchmark-tasks/basic"
RepoRoot == <<"tmp", "repo">>
TmpRoot == <<"tmp">>
DstRoot == <<"datasets">>

\* the datasets a registry may hold: the files of the repository and the steps
Configs ==
    { [repo |-> {"data.csv", "raw.tmp"},
       transforms |-> << [type |-> "delete", patterns |-> {"raw.tmp"}] >>],
      [repo |-> {"data.csv", "a.zip"}, members |-> <<mIn>>,
       transforms |-> << [type |-> "unzip", patterns |-> {"*.zip"}, delete_archives |-> TRUE] >>],
      [repo |-> {"data.csv", "a.zip"}, members |-> <<mIn, mUp>>,
       transforms |-> << [type |-> "unzip", patterns |-> {"*.zip"}, delete_archives |-> FALSE] >>],
      [repo |-> {"data.csv", "raw.tmp"},
       transforms |-> << [type |-> "delete", patterns |-> {"raw.tmp"}],
                         [type |-> "frobnicate"],
                         [type |-> "delete", patterns |-> {"data.csv"}] >>] }

\* what fetch_git leaves below root when the remote is at version v
FetchTree(cfg, root, v) ==
    { IF IsZipName(n) THEN Archive(root \o <<n>>, cfg.members)
      ELSE [path |-> root \o <<n>>, kind |-> "data", members |-> <<>>, ver |-> v] :
      n \in cfg.repo }

DstFiles(fs) == { f \in fs : Within(f.path, DstRoot) }
Destination == [exists |-> ck_dstDir, files |-> DstFiles(ck_fs)]

\* the datasets a complete checkout of cfg can install
Installable(cfg, filter) ==
    UNION { { Rebase(t, WorkRoot, DstRoot) :
              t \in Transformed(FetchTree(cfg, WorkRoot, v), WorkRoot, cfg.transforms, filter) } :
            v \in 1..MaxVersion }

CheckoutIdle ==
    /\ ck_cfg = CHOOSE c \in Configs : TRUE
    /\ ck_remote = 1
    /\ ck_fs = {}
    /\ ck_dstDir = FALSE
    /\ ck_pc = "idle"
    /\ ck_args = [id |-> DatasetId, update |-> FALSE]
    /\ ck_k = 0
    /\ ck_ret = "none"
    /\ ck_stage = "none"
    /\ ck_before = [exists |-> FALSE, files |-> {}]
    /\ ck_ops = {}
    /\ ck_steps = <<>>

CheckoutInit ==
    /\ ck_cfg \in Configs
    /\ ck_remote = 1
    /\ ck_fs = {}
    /\ ck_dstDir = FALSE
    /\ ck_pc = "idle"
    /\ ck_args = [id |-> DatasetId, update |-> FALSE]
    /\ ck_k = 0
    /\ ck_ret = "none"
    /\ ck_stage = "none"
    /\ ck_before = [exists |-> FALSE, files |-> {}]
    /\ ck_ops = {}
    /\ ck_steps = <<>>

\* the remote repository moves on
CK_RemoteChanges ==
    /\ ck_remote < MaxVersion
    /\ ck_remote' = ck_remote + 1
    /\ UNCHANGED <<ck_cfg, ck_fs, ck_dstDir, ck_pc, ck_args, ck_k, ck_ret, ck_stage,
                   ck_before, ck_ops, ck_steps>>
    /\ UNCHANGED nonCheckout

\* the dataset ids a caller asks for: the registered one and one that is not
CallIds == {DatasetId, "benchmark-tasks/none"}

\* a call that never takes the destination it finds
CacheHit_Never(exists, update) == FALSE

\* "dst.exists() and not update"
CacheHit(exists, update) == exists /\ ~update

\* checkout_one up to the fetch: registry lookup, then
\* "if dst.exists() and not update: return dst"
CK_Enter(id, update) ==
    /\ ck_pc \in {"idle", "returned", "raised"}
    /\ ck_args' = [id |-> id, update |-> update]
    /\ ck_before' = Destination
    /\ ck_k' = 0
    /\ ck_ops' = {}
    /\ ck_steps' = <<>>
    /\ IF id /= DatasetId
       THEN /\ ck_ret' = "ValueError"
            /\ ck_pc' = "raised"
            /\ ck_stage' = "registry"
       ELSE IF CacheHit(ck_dstDir, update)
       THEN /\ ck_ret' = "ok"
            /\ ck_pc' = "returned"
            /\ ck_stage' = "cached"
       ELSE /\ ck_ret' = "none"
            /\ ck_pc' = "fetch"
            /\ ck_stage' = "fetch"
    /\ UNCHANGED <<ck_cfg, ck_remote, ck_fs, ck_dstDir>>

\* a call of checkout_one by the command line
CK_Call(id, update) ==
    /\ CK_Enter(id, update)
    /\ UNCHANGED nonCheckout

\* files outside the temporary directory: what TemporaryDirectory's cleanup leaves
Cleaned(fs) == { f \in fs : ~Within(f.path, TmpRoot) }

\* _fetch_source: the clone succeeds, or git fails
CK_Fetch ==
    /\ ck_pc = "fetch"
    /\ \/ /\ ck_fs' = ck_fs \cup FetchTree(ck_cfg, RepoRoot, ck_remote)
          /\ ck_pc' = "copy"
          /\ ck_stage' = "copy"
          /\ UNCHANGED ck_ret
       \/ /\ ck_fs' = Cleaned(ck_fs)
          /\ ck_pc' = "raised"
          /\ ck_ret' = "CalledProcessError"
          /\ UNCHANGED ck_stage
    /\ ck_ops' = ck_ops \cup {"fetch"}
    /\ UNCHANGED <<ck_cfg, ck_remote, ck_dstDir, ck_args, ck_k, ck_before, ck_steps>>
    /\ UNCHANGED nonCheckout

\* shutil.copytree(src_root, workdir): all of it, or it raises
CK_Copy ==
    /\ ck_pc = "copy"
    /\ \/ /\ ck_fs' = ck_fs \cup Rebase(ck_fs, RepoRoot, WorkRoot)
          /\ ck_pc' = "transform"
          /\ ck_stage' = "transform"
          /\ UNCHANGED ck_ret
       \/ /\ ck_fs' = Cleaned(ck_fs)
          /\ ck_pc' = "raised"
          /\ ck_ret' = "OSError"
          /\ UNCHANGED ck_stage
    /\ ck_ops' = ck_ops \cup {"copy"}
    /\ UNCHANGED <<ck_cfg, ck_remote, ck_dstDir, ck_args, ck_k, ck_before, ck_steps>>
    /\ UNCHANGED nonCheckout

\* one iteration of the loop of apply_transforms
CK_Transform ==
    /\ ck_pc = "transform"
    /\ ck_k < Len(ck_cfg.transforms)
    /\ LET step == ck_cfg.transforms[ck_k + 1] IN
       /\ ck_steps' = IF step.type \in KnownKinds THEN Append(ck_steps, ck_k + 1)
                      ELSE ck_steps
       /\ \E o \in StepOrders(ck_fs, WorkRoot, step) :
             LET r == ApplyStep(ck_fs, WorkRoot, step, o, tarFilter) IN
             IF r.raised /= ""
             THEN /\ ck_fs' = Cleaned(r.fs)
                  /\ ck_pc' = "raised"
                  /\ ck_ret' = r.raised
                  /\ UNCHANGED ck_k
             ELSE /\ ck_fs' = r.fs
                  /\ ck_k' = ck_k + 1
                  /\ UNCHANGED <<ck_pc, ck_ret>>
    /\ UNCHANGED <<ck_cfg, ck_remote, ck_dstDir, ck_args, ck_stage, ck_before, ck_ops>>
    /\ UNCHANGED nonCheckout

\* apply_transforms returns
CK_Transformed ==
    /\ ck_pc = "transform"
    /\ ck_k = Len(ck_cfg.transforms)
    /\ ck_pc' = "remove"
    /\ ck_stage' = "remove"
    /\ UNCHANGED <<ck_cfg, ck_remote, ck_fs, ck_dstDir, ck_args, ck_k, ck_ret, ck_before,
                   ck_ops, ck_steps>>
    /\ UNCHANGED nonCheckout

\* "if dst.exists(): safe_rmtree(dst)": nothing to remove; or rmtree removes the
\* tree; or it raises having removed some of the files, maybe none
CK_Remove ==
    /\ ck_pc = "remove"
    /\ \/ /\ ~ck_dstDir
          /\ ck_pc' = "move"
          /\ ck_stage' = "move"
          /\ UNCHANGED <<ck_fs, ck_dstDir, ck_ret, ck_ops>>
       \/ /\ ck_dstDir
          /\ ck_fs' = ck_fs \ DstFiles(ck_fs)
          /\ ck_dstDir' = FALSE
          /\ ck_pc' = "move"
          /\ ck_stage' = "move"
          /\ ck_ops' = ck_ops \cup {"remove"}
          /\ UNCHANGED ck_ret
       \/ /\ ck_dstDir
          /\ \E gone \in SUBSET DstFiles(ck_fs) : ck_fs' = Cleaned(ck_fs \ gone)
          /\ ck_pc' = "raised"
          /\ ck_ret' = "OSError"
          /\ ck_ops' = ck_ops \cup {"remove"}
          /\ UNCHANGED <<ck_dstDir, ck_stage>>
    /\ UNCHANGED <<ck_cfg, ck_remote, ck_args, ck_k, ck_before, ck_steps>>
    /\ UNCHANGED nonCheckout

\* shutil.move(workdir, dst): os.rename moves the tree at once; or rename is
\* refused across filesystems and the copy that replaces it raises with some
\* of the files copied; or the move raises with nothing done
CK_Move ==
    /\ ck_pc = "move"
    /\ \/ /\ ck_fs' = (ck_fs \ { f \in ck_fs : Within(f.path, WorkRoot) })
                      \cup Rebase(ck_fs, WorkRoot, DstRoot)
          /\ ck_dstDir' = TRUE
          /\ ck_pc' = "installed"
          /\ UNCHANGED ck_ret
       \/ /\ \E copied \in (SUBSET Rebase(ck_fs, WorkRoot, DstRoot)) \ {Rebase(ck_fs, WorkRoot, DstRoot)} :
                ck_fs' = Cleaned(ck_fs) \cup copied
          /\ ck_dstDir' = TRUE
          /\ ck_pc' = "raised"
          /\ ck_ret' = "OSError"
       \/ /\ ck_fs' = Cleaned(ck_fs)
          /\ ck_pc' = "raised"
          /\ ck_ret' = "OSError"
          /\ UNCHANGED ck_dstDir
    /\ ck_ops' = ck_ops \cup {"move"}
    /\ UNCHANGED <<ck_cfg, ck_remote, ck_args, ck_k, ck_stage, ck_before, ck_steps>>
    /\ UNCHANGED nonCheckout

\* the with block ends, the temporary directory is removed, "return dst"
CK_Return ==
    /\ ck_pc = "installed"
    /\ ck_fs' = Cleaned(ck_fs)
    /\ ck_pc' = "returned"
    /\ ck_ret' = "ok"
    /\ ck_stage' = "installed"
    /\ UNCHANGED <<ck_cfg, ck_remote, ck_dstDir, ck_args, ck_k, ck_before, ck_ops, ck_steps>>
    /\ UNCHANGED nonCheckout

CheckoutNext ==
    \/ CK_RemoteChanges
    \/ \E id \in CallIds, update \in BOOLEAN : CK_Call(id, update)
    \/ CK_Fetch
    \/ CK_Copy
    \/ CK_Transform
    \/ CK_Transformed
    \/ CK_Remove
    \/ CK_Move
    \/ CK_Return

\* ---- wait_for_all_completed
MaxTime == 3           \* the clock's last value
MaxTimeout == 1        \* the longest timeout_seconds, in poll intervals

\* the variables of the queue a waiter never writes: all but the lock and the clock
qOther == <<manifest, grader, items, in_progress, completed, files, pc, loc, snap,
            leases, ntCalls, graderCalls, writeFails>>

\* the thread that serves the tool calls while the waiter runs
WaitWorkers == {1}

\* timeout_seconds: None or a number
Timeouts == {NoneInt} \cup (0..MaxTimeout)

WaitIdle ==
    /\ w_pc = "idle"
    /\ w_timeout = NoneInt
    /\ w_start = NoneInt
    /\ w_done = FALSE
    /\ w_holds = FALSE

\* "start = time.time()"; a deadline is one the clock can pass
W_Call(t) ==
    /\ w_pc = "idle"
    /\ t /= NoneInt => now + t < MaxTime
    /\ w_timeout' = t
    /\ w_start' = now
    /\ w_pc' = "poll"
    /\ UNCHANGED <<w_done, w_holds>>
    /\ UNCHANGED <<qOther, lock, now>>
    /\ UNCHANGED nonWait

\* "with self._lock:" at the top of the loop
W_Acquire ==
    /\ w_pc = "poll"
    /\ CanAcquire
    /\ lock' = TRUE
    /\ w_holds' = TRUE
    /\ w_pc' = "read"
    /\ UNCHANGED <<w_timeout, w_start, w_done>>
    /\ UNCHANGED <<qOther, now>>
    /\ UNCHANGED nonWait

\* a waiter that keeps the lock when it leaves the with block
HeldAfterRead_Kept == TRUE

\* whether the lock is still held once the with block is left
HeldAfterRead == FALSE

\* a test that is satisfied by the first completed item
Done_Some(c, n) == c >= 1 \/ c = n

\* "self._completed == len(self._items)"
Done(c, n) == c = n

\* "done = self._completed == len(self._items)", and the end of the with block
W_Read ==
    /\ w_pc = "read"
    /\ w_done' = Done(completed, Total)
    /\ lock' = HeldAfterRead
    /\ w_holds' = HeldAfterRead
    /\ w_pc' = "check"
    /\ UNCHANGED <<w_timeout, w_start>>
    /\ UNCHANGED <<qOther, now>>
    /\ UNCHANGED nonWait

\* a deadline test that never fires
Expired_Never(start, timeout, t) == FALSE

\* "timeout_seconds is not None and (time.time() - start) > timeout_seconds"
Expired(start, timeout, t) == timeout /= NoneInt /\ (t - start) > timeout

\* "if done: return", then the deadline test
W_Check ==
    /\ w_pc = "check"
    /\ w_pc' = IF w_done THEN "returned"
               ELSE IF Expired(w_start, w_timeout, now) THEN "timeout"
               ELSE "sleep"
    /\ UNCHANGED <<w_timeout, w_start, w_done, w_holds>>
    /\ UNCHANGED <<qOther, lock, now>>
    /\ UNCHANGED nonWait

\* "await asyncio.sleep(0.1)": a poll interval passes, or more
W_Sleep ==
    /\ w_pc = "sleep"
    /\ now' \in Min(now + 1, MaxTime)..MaxTime
    /\ w_pc' = "poll"
    /\ UNCHANGED <<w_timeout, w_start, w_done, w_holds>>
    /\ UNCHANGED <<qOther, lock>>
    /\ UNCHANGED nonWait

WaitNext ==
    \/ \E t \in Timeouts : W_Call(t)
    \/ W_Acquire
    \/ W_Read
    \/ W_Check
    \/ W_Sleep

\* a step inside a call of a worker, up to its return
CallStep(w) ==
    \/ NT_Scan(w)
    \/ NT_Lease(w)
    \/ NT_Exit(w)
    \/ Sub_Validate(w)
    \/ Sub_Grade(w)
    \/ Sub_Persist(w)
    \/ Sub_Mark(w)
    \/ Sub_Count(w)
    \/ Sub_Exit(w)

\* the calls the tool server makes while the waiter runs; the agent asks for
\* tasks until one call has returned None
ServeNext ==
    \E w \in WaitWorkers :
        \/ ntCalls <= Total /\ NT_Acquire(w)
        \/ \E tid \in SubmitIds : Sub_Acquire(w, tid, "out.csv")
        \/ CallStep(w)

\* ---- build_tasks_from_dataset
MaxLimit == 3          \* the largest limit a caller gives

\* the ids a caller names: in short form, in full, and one the registry lacks
BuildIds == {"basic", "benchmark-tasks/basic", "none"}

\* '"/" in dataset_id'
HasSlash(id) == id \in {"benchmark-tasks/basic", "benchmark-tasks/none"}

\* _normalize_dataset_id
NormalizeDatasetId(id) == IF HasSlash(id) THEN id ELSE "benchmark-tasks/" \o id

\* the 'manifest' entry of a config: absent, empty, relative, absolute
ManifestFields == {None, "", "tasks.json", "/abs/tasks.json"}

\* the registered dataset, with or without its manifest file in the repository
BuildConfigs ==
    { [repo |-> names, manifest |-> m,
       transforms |-> << [type |-> "delete", patterns |-> {"raw.tmp"}] >>] :
      names \in {{"data.csv", "raw.tmp", "tasks.json"}, {"data.csv", "raw.tmp"}},
      m \in ManifestFields }

\* limit: None or an integer
Limits == {NoneRec} \cup { [int |-> n] : n \in (0 - 1)..MaxLimit }

\* a check that lets an absolute manifest path through
ManifestBad_AbsoluteOk(m) == Falsy(m)

\* "not manifest_rel or Path(manifest_rel).is_absolute()"
ManifestBad(m) == Falsy(m) \/ IsAbsolute(m)

BuildIdle ==
    /\ bt_pc = "idle"
    /\ bt_args = [id |-> DatasetId, update |-> FALSE]
    /\ bt_ret = "none"
    /\ bt_tasks = <<>>
    /\ bt_before = [fs |-> {}, exists |-> FALSE]

\* the call up to the return of checkout_one's first part: normalization,
\* registry lookup, the manifest check, then checkout_one(dsid, ...)
BT_Call(id, update) ==
    /\ bt_pc \in {"idle", "returned", "raised"}
    /\ bt_args' = [id |-> id, update |-> update]
    /\ bt_before' = [fs |-> ck_fs, exists |-> ck_dstDir]
    /\ bt_tasks' = <<>>
    /\ LET dsid == NormalizeDatasetId(id) IN
       IF dsid /= DatasetId \/ ManifestBad(ck_cfg.manifest)
       THEN /\ bt_pc' = "raised"
            /\ bt_ret' = "ValueError"
            /\ ck_ops' = {}
            /\ ck_steps' = <<>>
            /\ UNCHANGED <<ck_cfg, ck_remote, ck_fs, ck_dstDir, ck_pc, ck_args, ck_k,
                           ck_ret, ck_stage, ck_before>>
       ELSE /\ bt_pc' = "checkout"
            /\ bt_ret' = "none"
            /\ CK_Enter(dsid, update)
    /\ UNCHANGED nonBuild

\* checkout_one raises: the exception passes through
BT_Raise ==
    /\ bt_pc = "checkout"
    /\ ck_pc = "raised"
    /\ bt_pc' = "raised"
    /\ bt_ret' = ck_ret
    /\ UNCHANGED <<bt_args, bt_tasks, bt_before>>
    /\ UNCHANGED cvars
    /\ UNCHANGED nonBuild

\* the manifest file is there, below the dataset root
ManifestExists(fs, rel) == \E f \in DstFiles(fs) : f.path = DstRoot \o <<rel>>

Max(a, b) == IF a >= b THEN a ELSE b

\* random.shuffle: the list in the order perm gives
Shuffled(tasks, perm) == [i \in 1..Len(tasks) |-> tasks[perm[i]]]

\* a cut that hands a negative limit to the slice as it is: tasks[:limit]
Limited_Unclamped(tasks, limit) ==
    IF limit = NoneRec THEN tasks
    ELSE IF limit.int < 0 THEN SubSeq(tasks, 1, Max(0, Len(tasks) + limit.int))
    ELSE SubSeq(tasks, 1, Min(Len(tasks), limit.int))

\* "tasks[: max(0, int(limit))]"
Limited(tasks, limit) ==
    IF limit = NoneRec THEN tasks
    ELSE SubSeq(tasks, 1, Min(Len(tasks), Max(0, limit.int)))

\* checkout_one has returned: the manifest is read and parsed, then the list
\* is shuffled and cut; limit and shuffle are read only here
BT_Load(limit, shuffle) ==
    /\ bt_pc = "checkout"
    /\ ck_pc = "returned"
    /\ IF ~ManifestExists(ck_fs, ck_cfg.manifest)
       THEN /\ bt_pc' = "raised"
            /\ bt_ret' = "FileNotFoundError"
            /\ UNCHANGED bt_tasks
       ELSE /\ bt_pc' = "returned"
            /\ bt_ret' = "ok"
            /\ LET tasks == ParseTasks(manifest, DatasetRoot) IN
               \E perm \in IF shuffle THEN Orderings(1..Len(tasks))
                           ELSE {[i \in 1..Len(tasks) |-> i]} :
                  bt_tasks' = Limited(Shuffled(tasks, perm), limit)
    /\ bt_args' = [id |-> bt_args.id, update |-> bt_args.update,
                   limit |-> limit, shuffle |-> shuffle]
    /\ UNCHANGED bt_before
    /\ UNCHANGED cvars
    /\ UNCHANGED nonBuild

BuildNext ==
    \/ \E id \in BuildIds, update \in BOOLEAN : BT_Call(id, update)
    \/ BT_Raise
    \/ \E limit \in Limits, shuffle \in BOOLEAN : BT_Load(limit, shuffle)
    \/ CK_Fetch
    \/ CK_Copy
    \/ CK_Transform
    \/ CK_Transformed
    \/ CK_Remove
    \/ CK_Move
    \/ CK_Return

\* ---- _parse_tasks
MaxRecords == 3        \* records in a manifest handed to _parse_tasks

\* records with an id, with a name, with neither, with an empty id, and with
\* an id that reads like a placeholder
ParseRecords ==
    { ManifestRecords[1], ManifestRecords[2], ManifestRecords[3],
      [id |-> "", name |-> "n3", instruction |-> ""],
      [id |-> "task-2", input |-> "two.xlsx"] }

\* the JSON values a manifest file may hold: an array of records, an object
\* with a "tasks" array, or something else
ParseObjects ==
    { [kind |-> k, tasks |-> raw] :
        k \in {"list", "dict"},
        raw \in UNION { [1..n -> ParseRecords] : n \in 0..MaxRecords } }
    \cup { [kind |-> "other", tasks |-> <<>>] }

ParseIdle ==
    /\ p_obj = [kind |-> "list", tasks |-> <<>>]
    /\ p_out = <<>>
    /\ p_k = 0
    /\ p_pc = "done"

ParseInit ==
    /\ p_obj \in ParseObjects
    /\ p_out = <<>>
    /\ p_k = 0
    /\ p_pc = "open"

\* the isinstance tests: raw is the array, or ValueError
P_Open ==
    /\ p_pc = "open"
    /\ p_pc' = IF p_obj.kind \in {"list", "dict"} THEN "loop" ELSE "raised"
    /\ UNCHANGED <<p_obj, p_out, p_k>>
    /\ UNCHANGED nonParse

\* one iteration of "for t in raw": out.append(TaskSpec(...))
P_Step ==
    /\ p_pc = "loop"
    /\ p_k < Len(p_obj.tasks)
    /\ p_out' = Append(p_out, ParseTask(p_obj.tasks[p_k + 1], Len(p_out), DatasetRoot))
    /\ p_k' = p_k + 1
    /\ UNCHANGED <<p_obj, p_pc>>
    /\ UNCHANGED nonParse

\* "return out"
P_Return ==
    /\ p_pc = "loop"
    /\ p_k = Len(p_obj.tasks)
    /\ p_pc' = "done"
    /\ UNCHANGED <<p_obj, p_out, p_k>>
    /\ UNCHANGED nonParse

ParseNext == P_Open \/ P_Step \/ P_Return

\* ------------------------------ adapters/transforms.py: _t_strip_prefix
StripRoot == WorkRoot

Dir(rel) == [path |-> StripRoot \o rel, kind |-> "dir", ver |-> 0]
File(rel, v) == [path |-> StripRoot \o rel, kind |-> "file", ver |-> v]

\* what a fetched tree may hold below root
StripEntries ==
    { Dir(<<"a">>), Dir(<<"a", "a">>), Dir(<<"a", "b">>), Dir(<<"a", "b", "d">>),
      File(<<"a", "b", "f">>, 1), File(<<"a", "b", "d", "g">>, 1),
      File(<<"a", "f">>, 2), File(<<"f">>, 0),
      Dir(<<"d">>), File(<<"d", "h">>, 0) }

Exists(fs, path) == \E e \in fs : e.path = path
IsDir(fs, path) == \E e \in fs : e.path = path /\ e.kind = "dir"
Children(fs, dir) == { e \in fs : Len(e.path) = Len(dir) + 1 /\ Parent(e.path) = dir }
Subtree(fs, path) == { e \in fs : Within(e.path, path) }

\* a tree: every entry below root lies in a directory of the tree
IsTree(fs) ==
    \A e \in fs : Parent(e.path) = StripRoot \/ IsDir(fs, Parent(e.path))
StripTrees == { fs \in SUBSET StripEntries : IsTree(fs) }

\* step["prefix"].rstrip("/\\") joined to root, as path components
PrefixParts(prefix) ==
    CASE prefix = "a" -> <<"a">>
      [] prefix = "a/" -> <<"a">>
      [] prefix = "a/b" -> <<"a", "b">>
      [] prefix = "a/b/" -> <<"a", "b">>
StripSteps == { [prefix |-> p] : p \in {"a", "a/", "a/b", "a/b/"} }
Src(step) == StripRoot \o PrefixParts(step.prefix)

\* os.rename(src, dst) of a file or a directory with all below it
Renamed(fs, src, dst) == (fs \ Subtree(fs, src)) \cup Rebase(fs, src, dst)

\* shutil.move(src, dst) on one filesystem: into dst when dst is a directory,
\* else a rename that replaces a file and fails on a directory over a file
ShutilMove(fs, src, dst) ==
    IF IsDir(fs, dst)
    THEN LET real_dst == dst \o <<Name(src)>>
         IN  IF Exists(fs, real_dst)
             THEN [raised |-> "Error", fs |-> fs]
             ELSE [raised |-> "none", fs |-> Renamed(fs, src, real_dst)]
    ELSE IF Exists(fs, dst) /\ IsDir(fs, src)
         THEN [raised |-> "FileExistsError", fs |-> fs]
         ELSE [raised |-> "none",
               fs |-> Renamed({ e \in fs : e.path /= dst }, src, dst)]

StripIdle ==
    /\ s_fs = {}
    /\ s_fs0 = {}
    /\ s_step = [prefix |-> "a"]
    /\ s_todo = {}
    /\ s_pc = "done"
    /\ s_ret = "none"

StripInit ==
    /\ s_fs \in StripTrees
    /\ s_fs0 = s_fs
    /\ s_step \in StripSteps
    /\ s_todo = {}
    /\ s_pc = "start"
    /\ s_ret = "none"

\* "if not src.exists(): return", then src.iterdir() lists the entries of src
S_Begin ==
    /\ s_pc = "start"
    /\ IF ~Exists(s_fs, Src(s_step))
       THEN s_pc' = "done" /\ UNCHANGED <<s_todo, s_ret>>
       ELSE IF ~IsDir(s_fs, Src(s_step))
            THEN /\ s_pc' = "raised"
                 /\ s_ret' = "NotADirectoryError"
                 /\ UNCHANGED s_todo
            ELSE /\ s_pc' = "move"
                 /\ s_todo' = { Name(e.path) : e \in Children(s_fs, Src(s_step)) }
                 /\ UNCHANGED s_ret
    /\ UNCHANGED <<s_fs, s_fs0, s_step>>
    /\ UNCHANGED nonStrip

\* one iteration of "for item in src.iterdir()", in the order the directory
\* gives: shutil.move(str(item), str(root / item.name))
S_Move(n) ==
    /\ s_pc = "move"
    /\ n \in s_todo
    /\ LET r == ShutilMove(s_fs, Src(s_step) \o <<n>>, StripRoot \o <<n>>)
       IN  IF r.raised = "none"
           THEN /\ s_fs' = r.fs
                /\ s_todo' = s_todo \ {n}
                /\ UNCHANGED <<s_pc, s_ret>>
           ELSE /\ s_pc' = "raised"
                /\ s_ret' = r.raised
                /\ UNCHANGED <<s_fs, s_todo>>
    /\ UNCHANGED <<s_fs0, s_step>>
    /\ UNCHANGED nonStrip

\* the directories still below root / prefix are removed, deepest first, then
\* "(root / prefix).rmdir()": the last component of the prefix, and only it
S_Clean ==
    /\ s_pc = "move"
    /\ s_todo = {}
    /\ LET src == Src(s_step)
           below == Subtree(s_fs, src)
       IN  IF \E e \in below : e.kind = "file"
           THEN /\ s_pc' = "raised"
                /\ s_ret' = "OSError"
                /\ s_fs' = { e \in s_fs : Within(e.path, src) =>
                                \E g \in below : g.kind = "file" /\ Within(g.path, e.path) }
           ELSE /\ s_pc' = "done"
                /\ s_fs' = s_fs \ below
                /\ UNCHANGED s_ret
    /\ UNCHANGED <<s_fs0, s_step, s_todo>>
    /\ UNCHANGED nonStrip

StripNext == S_Begin \/ (\E n \in s_todo : S_Move(n)) \/ S_Clean

\* the queue before any call, built from one manifest
QueueIdle ==
    /\ QueueInit
    /\ manifest = CHOOSE m \in Manifests(NumItems) : TRUE
    /\ grader = FALSE

\* ---- the specifications
Init ==
    QueueInit /\ ExtractIdle /\ tarFilter = "fully_trusted" /\ CheckoutIdle /\ WaitIdle
    /\ BuildIdle /\ ParseIdle /\ StripIdle
Next == QueueNext
Spec == Init /\ [][Next]_vars

InitExtract ==
    QueueIdle /\ ExtractInit /\ tarFilter \in {"fully_trusted", "data"} /\ CheckoutIdle
    /\ WaitIdle /\ BuildIdle /\ ParseIdle /\ StripIdle
SpecExtract == InitExtract /\ [][ExtractNext]_vars

InitCheckout ==
    QueueIdle /\ ExtractIdle /\ tarFilter \in {"fully_trusted", "data"} /\ CheckoutInit
    /\ WaitIdle /\ BuildIdle /\ ParseIdle /\ StripIdle
SpecCheckout == InitCheckout /\ [][CheckoutNext]_vars

\* a registry whose dataset has one of the configs above, nothing checked out
BuildCheckoutInit ==
    /\ ck_cfg \in BuildConfigs
    /\ ck_remote = 1
    /\ ck_fs = {}
    /\ ck_dstDir = FALSE
    /\ ck_pc = "idle"
    /\ ck_args = [id |-> DatasetId, update |-> FALSE]
    /\ ck_k = 0
    /\ ck_ret = "none"
    /\ ck_stage = "none"
    /\ ck_before = [exists |-> FALSE, files |-> {}]
    /\ ck_ops = {}
    /\ ck_steps = <<>>

InitBuild ==
    /\ QueueInit /\ grader = FALSE
    /\ ExtractIdle /\ tarFilter = "fully_trusted" /\ BuildCheckoutInit /\ WaitIdle
    /\ BuildIdle /\ ParseIdle /\ StripIdle
SpecBuild == InitBuild /\ [][BuildNext]_vars

\* the queues a waiter is put on: of no item, and of two
WaitManifests == {<<>>, <<ManifestRecords[1], ManifestRecords[2]>>}

\* a queue of no item or of two, without a grader
WaitQueueInit ==
    /\ manifest \in WaitManifests
    /\ grader = FALSE
    /\ items = InitItems
    /\ lock = FALSE
    /\ in_progress = {}
    /\ completed = 0
    /\ files = [i \in TaskIds |-> NoFile]
    /\ now = 1
    /\ pc = [w \in Workers |-> "idle"]
    /\ loc = [w \in Workers |-> NoLocals]
    /\ snap = [w \in Workers |-> NoneRec]
    /\ leases = [i \in TaskIds |-> 0]
    /\ ntCalls = 0
    /\ graderCalls = 0
    /\ writeFails = 0

InitWait ==
    WaitQueueInit /\ ExtractIdle /\ tarFilter = "fully_trusted" /\ CheckoutIdle /\ WaitIdle
    /\ BuildIdle /\ ParseIdle /\ StripIdle

InitParse ==
    QueueIdle /\ ExtractIdle /\ tarFilter = "fully_trusted" /\ CheckoutIdle /\ WaitIdle
    /\ BuildIdle /\ ParseInit /\ StripIdle
SpecParse == InitParse /\ [][ParseNext]_vars

InitStrip ==
    QueueIdle /\ ExtractIdle /\ tarFilter = "fully_trusted" /\ CheckoutIdle /\ WaitIdle
    /\ BuildIdle /\ ParseIdle /\ StripInit
SpecStrip == InitStrip /\ [][StripNext]_vars
NextWait == ServeNext \/ WaitNext

\* the loop of the waiter runs on: each of its steps is taken once it can be;
\* a blocked acquire is granted when the lock is released often enough; and a
\* call of a worker that holds the lock runs to its return
FairWait ==
    /\ WF_vars(W_Read)
    /\ WF_vars(W_Check)
    /\ WF_vars(W_Sleep)
    /\ SF_vars(W_Acquire)
    /\ \A w \in WaitWorkers : WF_vars(CallStep(w))
SpecWait == InitWait /\ [][NextWait]_vars /\ FairWait

\* ------------------------------------------------------ claims: the queue
RECURSIVE SumUpTo(_, _)
SumUpTo(f, n) == IF n < 0 THEN 0 ELSE f[n] + SumUpTo(f, n - 1)

\* next_task calls that have returned an item
Leased == SumUpTo(leases, NumItems - 1)

InNextTask(w) == pc[w] \in {"nt_scan", "nt_lease", "nt_exit"}
InSubmit(w) == pc[w] \in {"sub_validate", "sub_grade", "sub_persist", "sub_mark",
                          "sub_count", "sub_exit"}

\* C1: leasing is exclusive: no task id is returned by two next_task calls, and
\* of the N calls made on a queue of M pending items exactly min(N, M) return an
\* item (at most that many while calls are still running).
C1_ExclusiveLease ==
    /\ \A i \in TaskIds : leases[i] <= 1
    /\ Leased <= Min(ntCalls, NumItems)
    /\ (\A w \in Workers : ~InNextTask(w)) => Leased = Min(ntCalls, NumItems)

\* more calls than items have returned, and every item went to exactly one of them
C1_Witness ==
    /\ ntCalls > NumItems
    /\ \A w \in Workers : ~InNextTask(w)
    /\ \A i \in TaskIds : leases[i] = 1

\* C2: an item's status only moves pending -> in_progress -> completed, one
\* step at a time: never backward, never from pending to completed, and
\* nothing follows completed.
C2_ForwardOnly ==
    [][\A i \in TaskIds :
          \/ items'[i].status = items[i].status
          \/ items[i].status = "pending" /\ items'[i].status = "in_progress"
          \/ items[i].status = "in_progress" /\ items'[i].status = "completed"]_vars

\* an item has gone the whole way and a submit for it is rejected afterwards
C2_Witness ==
    \E w \in Workers, i \in TaskIds :
        /\ items[i].status = "completed"
        /\ pc[w] = "sub_exit"
        /\ loc[w].task_id = i
        /\ loc[w].ret = [error |-> "RuntimeError"]

\* the submit of worker w was made on a task id that is out of range, or whose
\* item was pending or completed when the call began
BadSubmit(w) ==
    LET tid == loc[w].task_id IN
    \/ tid < 0
    \/ tid >= NumItems
    \/ snap[w].items[tid].status \in {"pending", "completed"}

\* C3: a submit on an out-of-range, never-leased or already completed task id
\* ends in an error, and the items, the counter, the in-progress set and the
\* stored records are what they were when the call began; the grader was not
\* called.
C3_BadSubmitRejected ==
    \A w \in Workers :
        (pc[w] = "sub_exit" /\ BadSubmit(w)) =>
            /\ loc[w].ret \in {[error |-> "ValueError"], [error |-> "RuntimeError"]}
            /\ QueueState = snap[w]

\* a second submit for a completed item is about to raise; its record is in place
C3_Witness ==
    \E w \in Workers :
        /\ pc[w] = "sub_exit"
        /\ loc[w].task_id \in TaskIds
        /\ snap[w].items[loc[w].task_id].status = "completed"
        /\ files[loc[w].task_id] = items[loc[w].task_id].result
        /\ loc[w].ret = [error |-> "RuntimeError"]

\* C4: the completed counter never decreases, never exceeds the number of
\* items, and equals it once every item is completed and no submit is running.
C4_CompletedCount ==
    /\ [](completed <= NumItems)
    /\ []((/\ \A i \in TaskIds : items[i].status = "completed"
           /\ \A w \in Workers : ~InSubmit(w)) => completed = NumItems)
    /\ [][completed' >= completed]_vars

\* every item has been leased and submitted, and the calls have returned
C4_Witness ==
    /\ \A i \in TaskIds : items[i].status = "completed" /\ leases[i] = 1
    /\ \A w \in Workers : pc[w] = "idle"
    /\ completed = NumItems

\* the manifest with the answer field of record i set to alt[i] (None: removed)
AnswerChoices == {None, "alt.xlsx", "/abs/alt.csv"}
SetAnswer(t, a) ==
    IF a = None THEN [k \in (DOMAIN t) \ {"answer"} |-> t[k]]
    ELSE [k \in (DOMAIN t) \cup {"answer"} |-> IF k = "answer" THEN a ELSE t[k]]
WithAnswers(m, alt) == [i \in DOMAIN m |-> SetAnswer(m[i], alt[i])]

\* C9: the view next_task returns has the five fields task_id, id, instruction,
\* input, meta; meta has no 'answer' entry; no field holds the task's answer
\* path; and the view is the one a queue built from the same manifest with any
\* other answers would return.
C9_NoAnswerInView ==
    \A w \in Workers :
        (pc[w] = "nt_exit" /\ loc[w].ret /= NoneRec) =>
            LET v == loc[w].ret
                i == v.task_id
                ans == SpecOf(i).answer_path IN
            /\ DOMAIN v = {"task_id", "id", "instruction", "input", "meta"}
            /\ "answer" \notin DOMAIN v.meta
            /\ ans /= None =>
                  /\ v.id /= ans /\ v.instruction /= ans /\ v.input /= ans
                  /\ \A k \in DOMAIN v.meta : v.meta[k] /= ans
            /\ \A alt \in [1..NumItems -> AnswerChoices] :
                  v = ViewOf(i, ParseTasks(WithAnswers(manifest, alt), DatasetRoot)[i + 1])

\* a view is being returned for a task that has an answer path and metadata
C9_Witness ==
    \E w \in Workers :
        /\ pc[w] = "nt_exit"
        /\ loc[w].ret /= NoneRec
        /\ SpecOf(loc[w].ret.task_id).answer_path /= None
        /\ DOMAIN loc[w].ret.meta /= {}

\* C10: when the grader raises, the submit goes on with the structured
\* grading-error outcome as its grade; unless the write of the record then
\* fails, it returns ok with that outcome, the item is completed with the
\* record stored and persisted, and the counter is one more than before.
C10_GradingFailureAbsorbed ==
    \A w \in Workers :
        (InSubmit(w) /\ loc[w].raised) =>
            /\ loc[w].grade = [status |-> "grading_error", error |-> "boom"]
            /\ (pc[w] = "sub_exit" /\ loc[w].ret /= [error |-> "OSError"]) =>
                  LET it == loc[w].task_id IN
                  /\ loc[w].ret.ok
                  /\ loc[w].ret.grade = [status |-> "grading_error", error |-> "boom"]
                  /\ items[it].status = "completed"
                  /\ completed = snap[w].completed + 1
                  /\ loc[w].ret.completed = completed
                  /\ files[it].grade = [status |-> "grading_error", error |-> "boom"]
                  /\ items[it].result = files[it]

\* a submit whose grader raised is returning its acknowledgement
C10_Witness ==
    \E w \in Workers :
        /\ pc[w] = "sub_exit"
        /\ loc[w].raised
        /\ loc[w].ret /= [error |-> "OSError"]
        /\ loc[w].ret.ok
        /\ items[loc[w].task_id].status = "completed"

\* C11: a next_task call that returns an item returns the pending item of the
\* smallest index, and the k-th such call (in the order the calls take the
\* lock) returns task id k - 1: the items no longer pending are exactly those
\* below the number of leases, whatever has been submitted meanwhile.
C11_LeaseOrder ==
    /\ \A i \in TaskIds : (items[i].status /= "pending") <=> (i < Leased)
    /\ \A w \in Workers :
          (pc[w] = "nt_exit" /\ loc[w].ret /= NoneRec) =>
              LET tid == loc[w].ret.task_id IN
              /\ tid = Leased - 1
              /\ snap[w].items[tid].status = "pending"
              /\ \A j \in TaskIds : j < tid => snap[w].items[j].status /= "pending"

\* the last item is being returned after an earlier one was completed
C11_Witness ==
    \E w \in Workers :
        /\ pc[w] = "nt_exit"
        /\ loc[w].ret /= NoneRec
        /\ loc[w].ret.task_id = NumItems - 1
        /\ \E j \in TaskIds : j < NumItems - 1 /\ items[j].status = "completed"

\* the submit of worker w is returning its acknowledgement
Acknowledging(w) ==
    /\ pc[w] = "sub_exit"
    /\ "ok" \in DOMAIN loc[w].ret

\* the grader ran in the submit of worker w and returned (it did not raise)
GraderReturned(w) ==
    /\ graderCalls = snap[w].graderCalls + 1
    /\ ~loc[w].raised

\* what a successful submit of worker w has done, but for the grading outcome
SubmitEffect(w) ==
    LET it == loc[w].task_id
        ack == loc[w].ret IN
    /\ snap[w].items[it].status = "in_progress"
    /\ completed = snap[w].completed + 1
    /\ items[it].status = "completed"
    /\ items[it].result = files[it]
    /\ \A j \in TaskIds : j /= it => items[j] = snap[w].items[j] /\ files[j] = snap[w].files[j]
    /\ files[it].task_id = it
    /\ ack.ok
    /\ ack.grade = files[it].grade
    /\ ack.completed = completed
    /\ ack.total = NumItems
    /\ ack.completed = Cardinality({ j \in TaskIds : items[j].status = "completed" })

\* C12 as stated: a successful submit adds one to the counter, completes that
\* item and no other, persists one record for that task id whose grading
\* outcome is what the grader returned, and acknowledges that outcome with the
\* counter after the submit (k for the k-th successful submit) and the total.
C12_SubmitEffect ==
    \A w \in Workers :
        Acknowledging(w) =>
            /\ SubmitEffect(w)
            /\ GraderReturned(w) => files[loc[w].task_id].grade = loc[w].grade

\* C12: the same, the grading outcome of the record and of the acknowledgement
\* being what the grader returned when that is not empty, and null when the
\* grader returned an empty outcome.
C12_SubmitEffectAmended ==
    \A w \in Workers :
        Acknowledging(w) =>
            /\ SubmitEffect(w)
            /\ GraderReturned(w) =>
                  files[loc[w].task_id].grade =
                      IF loc[w].grade = EmptyDict THEN NoneRec ELSE loc[w].grade

\* the last submit is acknowledged with the outcome its grader returned
C12_Witness ==
    \E w \in Workers :
        /\ Acknowledging(w)
        /\ GraderReturned(w)
        /\ loc[w].grade = [score |-> 1]
        /\ loc[w].ret.grade = [score |-> 1]
        /\ loc[w].ret.completed = NumItems

\* C18: a next_task call returns None exactly when no item was pending, and
\* then it has changed no item, counter or record; and a call that returns an
\* item follows no call that returned None: every call before it returned an
\* item.
C18_ExhaustionIsNull ==
    \A w \in Workers :
        pc[w] = "nt_exit" =>
            /\ (loc[w].ret = NoneRec) <=>
                  (\A i \in TaskIds : snap[w].items[i].status /= "pending")
            /\ loc[w].ret = NoneRec => QueueState = snap[w]
            /\ loc[w].ret /= NoneRec => ntCalls = Leased

\* a call returns None after an earlier call has returned None
C18_Witness ==
    \E w \in Workers :
        /\ pc[w] = "nt_exit"
        /\ loc[w].ret = NoneRec
        /\ ntCalls >= Leased + 2
        /\ \A v \in Workers : v /= w => pc[v] = "idle"

\* ------------------------------------------------ claims: the waiter
Waiting == w_pc \in {"poll", "read", "check", "sleep"}

\* C13: a waiter with a timeout on a queue with an item that is never
\* completed ends with the timeout condition, and a waiter never returns
\* normally while an item is pending or in progress.
C13_TimeoutWhenStuck ==
    /\ [](w_pc = "returned" => \A i \in ItemIds : items[i].status = "completed")
    /\ ([](completed < Total)) => ((Waiting /\ w_timeout /= NoneInt) ~> (w_pc = "timeout"))

\* the waiter has timed out on a queue with an item stuck in progress
C13_Witness ==
    /\ w_pc = "timeout"
    /\ \E i \in ItemIds : items[i].status = "in_progress"
    /\ \A w \in Workers : pc[w] = "idle"

\* C14: the waiter returns normally only having read a completed counter equal
\* to the number of items, which the first read does on an empty queue; and
\* once every item is completed a waiter without a timeout returns.
C14_ReturnsWhenComplete ==
    /\ [](w_pc = "returned" => (w_done /\ completed = Total))
    /\ [](Total = 0 => w_pc \notin {"sleep", "timeout"})
    /\ (Waiting /\ w_timeout = NoneInt /\ completed = Total) ~> (w_pc = "returned")

\* a waiter without a timeout has returned on a queue whose items were all
\* leased and submitted after it had slept
C14_Witness ==
    /\ w_pc = "returned"
    /\ w_timeout = NoneInt
    /\ Total > 0
    /\ completed = Total
    /\ now > w_start

\* C15: the waiter holds the lock only between taking it and reading the
\* counter, never while it sleeps; while it sleeps and the worker is between
\* calls the lock is free and a submit_answer call can take it.
C15_NoLockWhileSleeping ==
    /\ w_holds => w_pc = "read"
    /\ \A w \in WaitWorkers :
          (w_pc = "sleep" /\ pc[w] = "idle") =>
              /\ lock = FALSE
              /\ ENABLED Sub_Acquire(w, 0, "out.csv")

\* the worker leases an item inside the lock while the waiter sleeps
C15_Witness ==
    /\ w_pc = "sleep"
    /\ \E w \in WaitWorkers : pc[w] = "nt_lease"

\* ------------------------------------------- claims: archive extraction
\* member m of an archive unpacked into dest resolves to dest or below it
ResolvesWithin(dest, m) == Within(Resolve(Join(dest, m)), Resolve(dest))

HasEscapingMember(z) ==
    \E k \in 1..Len(z.members) : ~ResolvesWithin(Parent(z.path), z.members[k])

\* C7: extraction writes no file outside the archive's destination directory,
\* and an archive with a member that resolves outside it makes the extraction
\* raise without extracting.
C7_ExtractionContained ==
    \A e \in x_log :
        /\ \A t \in e.wrote : Within(t, Parent(e.z.path))
        /\ HasEscapingMember(e.z) => (e.raised /\ e.wrote = {})

\* C8: when an archive the step unpacks has a member that resolves outside its
\* destination directory, the step fails, and it has extracted nothing and
\* deleted no archive, whatever it visited before that archive.
C8_StepAllOrNothing ==
    (\E z \in x_fs0 : Unpacks(x_step.kind, z) /\ HasEscapingMember(z)) =>
        /\ x_pc /= "done"
        /\ x_fs = x_fs0

\* ------------------------------------------------------ claims: checkout
\* C5: when a call of checkout_one has returned and the destination exists,
\* the destination holds a dataset that fetch and all the transforms produce.
C5_DestinationComplete ==
    (ck_pc = "returned" /\ ck_dstDir) => DstFiles(ck_fs) \in Installable(ck_cfg, tarFilter)

\* C6: when checkout_one raises before the final move (at the registry lookup,
\* the fetch, the copy, a transform or the removal of the old version), the
\* destination is what it was when the call began.
C6_FailureLeavesDestination ==
    (ck_pc = "raised" /\ ck_stage \in {"registry", "fetch", "copy", "transform", "remove"})
        => Destination = ck_before

\* C16: a call without update that finds the destination returns it at once:
\* it fetches, copies, transforms, removes and moves nothing, leaves nothing in
\* the temporary directory, and the destination is what it was.
C16_CacheHitIdempotent ==
    (/\ ck_pc /= "idle"
     /\ ck_args.id = DatasetId
     /\ ~ck_args.update
     /\ ck_before.exists) =>
        /\ ck_pc = "returned"
        /\ ck_ret = "ok"
        /\ ck_ops = {}
        /\ ck_steps = <<>>
        /\ ck_fs = Cleaned(ck_fs)
        /\ Destination = ck_before

\* a second call without update has returned the dataset the first installed
C16_Witness ==
    /\ ck_pc = "returned"
    /\ ck_stage = "cached"
    /\ ~ck_args.update
    /\ ck_before.files \in Installable(ck_cfg, tarFilter)
    /\ Destination = ck_before

\* C17: when a call of checkout_one aborts, at whatever step, a good dataset
\* that was installed before the call is still there, unchanged.
C17_AbortKeepsPrevious ==
    (/\ ck_pc = "raised"
     /\ ck_before.exists
     /\ ck_before.files \in Installable(ck_cfg, tarFilter)) => Destination = ck_before

\* the position of the first step of an unrecognized kind, 0 when there is none
FirstUnknown(steps) ==
    IF \E k \in 1..Len(steps) : steps[k].type \notin KnownKinds
    THEN CHOOSE k \in 1..Len(steps) :
            /\ steps[k].type \notin KnownKinds
            /\ \A j \in 1..(k - 1) : steps[j].type \in KnownKinds
    ELSE 0

\* C19: the steps are dispatched in list order, each once; and with a step of
\* an unrecognized kind in the list the pipeline raises ValueError at that
\* step: no later step is dispatched, the call removes and moves nothing and
\* no destination comes to exist.
C19_UnknownKindFails ==
    LET u == FirstUnknown(ck_cfg.transforms) IN
    /\ \A i \in 1..Len(ck_steps) : ck_steps[i] = i
    /\ Len(ck_steps) \in {ck_k, ck_k + 1}
    /\ u /= 0 =>
          /\ \A i \in 1..Len(ck_steps) : ck_steps[i] < u
          /\ ck_ops \cap {"remove", "move"} = {}
          /\ ~ck_dstDir
          /\ DstFiles(ck_fs) = {}
          /\ ck_pc \notin {"remove", "move", "installed", "returned"}
          /\ (ck_pc = "raised" /\ ck_stage = "transform" /\ ck_k = u - 1) =>
                ck_ret = "ValueError"

\* the pipeline has raised at an unrecognized step after running the one before
C19_Witness ==
    /\ ck_pc = "raised"
    /\ ck_ret = "ValueError"
    /\ ck_stage = "transform"
    /\ ck_steps = <<1>>
    /\ FirstUnknown(ck_cfg.transforms) = 2
    /\ Len(ck_cfg.transforms) > 2

\* ------------------------------------------------- claims: task building
\* the call names an id the registry lacks, or the config's manifest entry is
\* absent, empty or absolute
BadBuild ==
    \/ NormalizeDatasetId(bt_args.id) /= DatasetId
    \/ ck_cfg.manifest = None
    \/ ck_cfg.manifest = ""
    \/ ck_cfg.manifest = "/abs/tasks.json"

\* C20: a build for an unknown dataset id, or for a config with no manifest
\* entry or an absolute one, raises ValueError, and it has fetched, copied,
\* transformed, removed and moved nothing: the filesystem is what it was when
\* the call began.
C20_BadConfigFailsFirst ==
    (bt_pc /= "idle" /\ BadBuild) =>
        /\ bt_pc = "raised"
        /\ bt_ret = "ValueError"
        /\ ck_ops = {}
        /\ ck_steps = <<>>
        /\ ck_fs = bt_before.fs
        /\ ck_dstDir = bt_before.exists

\* a build has raised on an absolute manifest path for a registered dataset
C20_Witness ==
    /\ bt_pc = "raised"
    /\ bt_ret = "ValueError"
    /\ NormalizeDatasetId(bt_args.id) = DatasetId
    /\ ck_cfg.manifest = "/abs/tasks.json"
    /\ bt_args.update

\* C21: a build that returns gives min(n, max(0, limit)) of the n tasks of the
\* manifest, all n without a limit; without shuffle they are the first tasks
\* in manifest order; with shuffle they are tasks of the manifest, no one
\* taken twice.
C21_LimitAndShuffle ==
    bt_pc = "returned" =>
        LET all == ParseTasks(manifest, DatasetRoot)
            n == Len(all)
            limit == bt_args.limit
            want == IF limit = NoneRec THEN n
                    ELSE IF limit.int <= 0 THEN 0
                    ELSE IF limit.int >= n THEN n
                    ELSE limit.int IN
        /\ Len(bt_tasks) = want
        /\ ~bt_args.shuffle => \A i \in 1..want : bt_tasks[i] = all[i]
        /\ \A i \in 1..want : \E k \in 1..n : bt_tasks[i] = all[k]
        /\ \A i, j \in 1..want : i /= j => bt_tasks[i] /= bt_tasks[j]

\* a shuffled build cut to one task has returned the last task of the manifest
C21_Witness ==
    /\ bt_pc = "returned"
    /\ bt_args.shuffle
    /\ bt_args.limit = [int |-> 1]
    /\ Len(manifest) > 1
    /\ bt_tasks = << ParseTasks(manifest, DatasetRoot)[Len(manifest)] >>

\* the id a record gives: its id, else its name, else none
GivenId(t) ==
    IF ~Falsy(Get(t, "id")) THEN Get(t, "id")
    ELSE IF ~Falsy(Get(t, "name")) THEN Get(t, "name")
    ELSE None

\* no two records of the manifest give the same id
GivenIdsDistinct(raw) ==
    \A i, j \in 1..Len(raw) :
        (i /= j /\ GivenId(raw[i]) /= None) => GivenId(raw[i]) /= GivenId(raw[j])

\* C22: the tasks parsed from a manifest whose records give distinct ids, or
\* none, have pairwise distinct ids.
C22_DistinctIds ==
    (p_pc = "done" /\ GivenIdsDistinct(p_obj.tasks)) =>
        \A i, j \in 1..Len(p_out) : i /= j => p_out[i].id /= p_out[j].id

\* ------------------------------------------------ claims: strip_prefix
\* C23: after a strip_prefix step whose prefix directory existed under root,
\* every entry that was directly inside root/P lies directly inside root with
\* all that was below it, root/P is gone, and no directory component of P
\* remains under root as an empty directory.
C23_StripHoists ==
    (s_pc = "done" /\ IsDir(s_fs0, Src(s_step))) =>
        /\ \A e \in Children(s_fs0, Src(s_step)) :
              Rebase(s_fs0, e.path, StripRoot \o <<Name(e.path)>>) \subseteq s_fs
        /\ ~Exists(s_fs, Src(s_step))
        /\ \A k \in 1..Len(PrefixParts(s_step.prefix)) :
              LET d == StripRoot \o SubSeq(PrefixParts(s_step.prefix), 1, k)
              IN  ~(IsDir(s_fs, d) /\ Children(s_fs, d) = {})

\* ------------------------------------------- claims: the critical section
\* a submit that has begun grading and has not yet marked its item completed
Grading(w) == pc[w] \in {"sub_grade", "sub_persist", "sub_mark"}

\* C24: the grading callback runs under the queue lock: while a submit is between
\* the start of grading and marking its item completed, the lock is held, no
\* other call of next_task, submit_answer, pending_count or completed_count is
\* inside or enters its critical section, and no other item changes.
C24_GradingUnderLock ==
    [][\A w \in Workers : Grading(w) =>
          /\ lock
          /\ \A v \in Workers \ {w} : pc[v] = "idle" /\ pc'[v] = "idle"
          /\ \A i \in ItemIds \ {loc[w].it} : items'[i] = items[i]]_vars

\* the callback has run for an item still in_progress while another item is
\* leased, so another call would have something to change
C24_Witness ==
    \E w \in Workers :
        /\ pc[w] = "sub_persist"
        /\ grader /\ loc[w].output_path /= None /\ graderCalls > 0
        /\ items[loc[w].it].status = "in_progress"
        /\ \E i \in ItemIds \ {loc[w].it} : items[i].status = "in_progress"

\* the ids of the items with status st
WithStatus(st) == { i \in ItemIds : items[i].status = st }

\* C25: whenever the lock is free, the completed counter is the number of
\* completed items, the in-progress set is the set of ids of the in_progress
\* items, and the pending, in_progress and completed items together are the
\* items the queue was built with; no step adds or removes an item.
C25_ConsistentBookkeeping ==
    /\ [](lock = FALSE =>
            /\ completed = Cardinality(WithStatus("completed"))
            /\ in_progress = WithStatus("in_progress")
            /\ DOMAIN items = ItemIds
            /\ \A i \in ItemIds : items[i].status \in {"pending", "in_progress", "completed"}
            /\ Cardinality(WithStatus("pending")) + Cardinality(WithStatus("in_progress"))
                 + Cardinality(WithStatus("completed")) = Total)
    /\ [][DOMAIN items' = DOMAIN items /\ Total' = Total]_vars

\* no call is running, one item is completed and another is leased
C25_Witness ==
    /\ lock = FALSE
    /\ completed = 1
    /\ Cardinality(in_progress) = 1
    /\ \E i \in ItemIds : items[i].status = "completed" /\ leases[i] = 1

\* ------------------------------------------------ claims: persistence
\* a submit whose write of the record has just failed
WriteFailed(w) == pc[w] = "sub_exit" /\ loc[w].ret = [error |-> "OSError"]

\* C26: a completed item has a persisted record for its task id equal to the
\* result stored on it, written before the item was marked; a submit whose
\* write fails raises with the item still in_progress, in the in-progress set
\* and the counter unchanged, and a later submit of that task passes the status
\* check and reaches the grader again.
C26_PersistBeforeComplete ==
    /\ [](\A i \in ItemIds : items[i].status = "completed" =>
             /\ items[i].result /= NoneRec
             /\ files[i] = items[i].result)
    /\ [][\A i \in ItemIds :
             (items[i].status /= "completed" /\ items'[i].status = "completed") =>
                 files[i] = items'[i].result /\ files'[i] = files[i]]_vars
    /\ [](\A w \in Workers : WriteFailed(w) =>
             /\ items[loc[w].it].status = "in_progress"
             /\ loc[w].it \in in_progress
             /\ items = snap[w].items
             /\ completed = snap[w].completed)
    /\ [][\A w \in Workers :
             (/\ pc[w] = "sub_validate"
              /\ loc[w].task_id \in ItemIds
              /\ items[loc[w].task_id].status = "in_progress") =>
                 pc'[w] = "sub_grade" \/ pc'[w] = pc[w]]_vars

\* item 0 alone was leased, its first submit failed in the write after the
\* callback had run, and its second submit completed it: two callback runs
C26_Witness ==
    /\ writeFails = 1
    /\ leases[0] = 1 /\ leases[1] = 0
    /\ items[0].status = "completed"
    /\ graderCalls = 2
    /\ files[0] = items[0].result
    /\ lock = FALSE

====
